---- MODULE Spec2Model ----
(***************************************************************************)
(* Model of the rich text editor's history engine: HistoryManager          *)
(* (snapshot store with undo/redo stacks and a debounce timer) as it is    *)
(* driven by Editor (input listener, setContent, undo/redo facade,         *)
(* destroy) and by FormatManager.executeCommand through the host's         *)
(* execCommand; of SelectionManager over the document's text nodes; and of  *)
(* EventEmitter with the handlers client code registers.                   *)
(*                                                                         *)
(* A HistorySnapshot is modelled by its content field alone: the timestamp *)
(* field is written from Date.now() and never read by any code.  A         *)
(* destroyed editor is not used again by its client; the host timer it     *)
(* armed still runs.  One observer is registered for each event.           *)
(***************************************************************************)
EXTENDS Integers, Sequences, FiniteSets, TLC

\* Bound of the undo stack (constructor parameter maxStackSize, 100 by default).
maxStackSize == 2

\* Serialized document contents (innerHTML values) the model draws from.
Contents == {"", "A"}

\* Formatting commands handed to the host's execCommand.
Commands == {"bold"}

VARIABLES
  content,        \* editorElement.innerHTML
  undoStack,      \* HistoryManager.undoStack, oldest first
  redoStack,      \* HistoryManager.redoStack, top is the last element
  isRecording,    \* HistoryManager.isRecording
  lastSnapshot,   \* HistoryManager.lastSnapshot
  snapshotTimer,  \* HistoryManager.snapshotTimer: 0 is null, else a timer handle
  timers,         \* host timer table: handles of the setTimeout callbacks pending
  destroyed,      \* Editor.destroy() has run
  notified,       \* what the event sink received during the last operation
  raised,         \* the last operation threw to its caller
  nodes,          \* lengths of the editor element's text nodes, in document order
  selection,      \* start of the host's active range (window.getSelection())
  arg,            \* history: the argument of the last selection operation
  out,            \* history: what the last selection operation returned
  events,         \* EventEmitter.events: the handler array of each event
  calls,          \* history: the handler calls the last operation made, in order
  request,        \* history: the arguments of the last EventEmitter operation
  emitThrown,     \* history: what became of the exceptions thrown during it
  paused,         \* history: pause() was called and resume() was not since
  recorded,       \* history: contents pushed by recordSnapshot() in a row
  lastOp,         \* history: the operation that ran last
  ret,            \* history: what it (or the host's execCommand) returned, FALSE if void
  prevOp,         \* history: the operation before it
  prevRet,        \* history: what that one returned
  pre,            \* history: document and store just before the last operation
  groups,         \* Toolbar.groups: the preset the toolbar was built from
  activeButtons,  \* the commands whose toolbar button carries the class 'active'
  clicked,        \* history: the button activated last and the value it carried
  routed,         \* history: the editor and format-manager calls this made
  plugins,        \* PluginManager.plugins: the registered plugins, in insertion order
  onDestroyCalls, \* history: onDestroy() calls on each plugin since it was registered
  lifecycle,      \* history: plugin callbacks and events of the last operation, in order
  asked,          \* history: the plugin or name the last plugin operation was given
  prePlugins,     \* history: PluginManager.plugins before the last operation
  pluginThrown    \* history: the last plugin operation threw to its caller

store == <<undoStack, redoStack, isRecording, lastSnapshot>>
editing == <<content, undoStack, redoStack, isRecording, lastSnapshot, snapshotTimer,
             timers, destroyed, notified, raised, paused, recorded, ret, prevRet, pre>>
selecting == <<nodes, selection, arg, out>>
listening == <<events, calls, request, emitThrown>>
toolbar == <<groups, activeButtons, clicked, routed>>
plugging == <<plugins, onDestroyCalls, lifecycle, asked, prePlugins, pluginThrown>>
vars == <<editing, selecting, listening, toolbar, plugging, lastOp, prevOp>>

----------------------------------------------------------------------------
\* HistoryManager as a value: the fields its methods read and write.

HistorySnapshot(c) == [content |-> c]

HM == [undoStack |-> undoStack, redoStack |-> redoStack,
       isRecording |-> isRecording, lastSnapshot |-> lastSnapshot]

Top(s) == s[Len(s)]
Pop(s) == SubSeq(s, 1, Len(s) - 1)
ContentsOf(s) == [i \in 1..Len(s) |-> s[i].content]

\* Array.push followed by the "limit stack size" shift.
Limit_noShift(s) == s
Limit_dropNewest(s) == IF Len(s) > maxStackSize THEN Pop(s) ELSE s
Limit(s) == IF Len(s) > maxStackSize THEN Tail(s) ELSE s

\* The "content hasn't changed" test of recordSnapshot.
Unchanged_never(h, doc) == FALSE
ContentUnchanged(h, doc) == doc = h.lastSnapshot

\* The redo stack recordSnapshot leaves behind after a push.
RedoAfterRecord_kept(h) == h.redoStack
RedoAfterRecord(h) == <<>>

recordSnapshot_keepsLast(h, doc) ==
  IF ~h.isRecording THEN h
  ELSE IF ContentUnchanged(h, doc) THEN h
  ELSE [h EXCEPT !.undoStack = Limit(Append(h.undoStack, HistorySnapshot(doc))),
                 !.redoStack = RedoAfterRecord(h)]
recordSnapshot(h, doc) ==
  IF ~h.isRecording THEN h
  ELSE IF ContentUnchanged(h, doc) THEN h
  ELSE [h EXCEPT !.undoStack = Limit(Append(h.undoStack, HistorySnapshot(doc))),
                 !.lastSnapshot = doc,
                 !.redoStack = RedoAfterRecord(h)]

\* Whether recordSnapshot(h, doc) pushes a snapshot.
Pushes(h, doc) == h.isRecording /\ doc # h.lastSnapshot

\* undo(): the result, the store and the document it leaves.
undo_noGuard(h, doc) ==
  IF Len(h.undoStack) = 0
  THEN [ret |-> FALSE, doc |-> doc,
        h |-> [h EXCEPT !.redoStack = Append(h.redoStack, HistorySnapshot(doc))]]
  ELSE [ret |-> TRUE, doc |-> Top(h.undoStack).content,
        h |-> [h EXCEPT !.redoStack = Append(h.redoStack, HistorySnapshot(doc)),
                        !.undoStack = Pop(h.undoStack),
                        !.isRecording = TRUE,
                        !.lastSnapshot = Top(h.undoStack).content]]
undo_savesLast(h, doc) ==
  IF Len(h.undoStack) = 0 THEN [ret |-> FALSE, doc |-> doc, h |-> h]
  ELSE [ret |-> TRUE, doc |-> Top(h.undoStack).content,
        h |-> [h EXCEPT !.redoStack = Append(h.redoStack, HistorySnapshot(h.lastSnapshot)),
                        !.undoStack = Pop(h.undoStack),
                        !.isRecording = TRUE,
                        !.lastSnapshot = Top(h.undoStack).content]]
undo_keepsLast(h, doc) ==
  IF Len(h.undoStack) = 0 THEN [ret |-> FALSE, doc |-> doc, h |-> h]
  ELSE [ret |-> TRUE, doc |-> Top(h.undoStack).content,
        h |-> [h EXCEPT !.redoStack = Append(h.redoStack, HistorySnapshot(doc)),
                        !.undoStack = Pop(h.undoStack),
                        !.isRecording = TRUE]]
undo(h, doc) ==
  IF Len(h.undoStack) = 0 THEN [ret |-> FALSE, doc |-> doc, h |-> h]
  ELSE [ret |-> TRUE, doc |-> Top(h.undoStack).content,
        h |-> [h EXCEPT !.redoStack = Append(h.redoStack, HistorySnapshot(doc)),
                        !.undoStack = Pop(h.undoStack),
                        !.isRecording = TRUE,
                        !.lastSnapshot = Top(h.undoStack).content]]

\* redo(): the result, the store and the document it leaves.
redo_keepsDoc(h, doc) ==
  IF Len(h.redoStack) = 0 THEN [ret |-> FALSE, doc |-> doc, h |-> h]
  ELSE [ret |-> TRUE, doc |-> doc,
        h |-> [h EXCEPT !.undoStack = Append(h.undoStack, HistorySnapshot(doc)),
                        !.redoStack = Pop(h.redoStack),
                        !.isRecording = TRUE,
                        !.lastSnapshot = Top(h.redoStack).content]]
redo_keepsLast(h, doc) ==
  IF Len(h.redoStack) = 0 THEN [ret |-> FALSE, doc |-> doc, h |-> h]
  ELSE [ret |-> TRUE, doc |-> Top(h.redoStack).content,
        h |-> [h EXCEPT !.undoStack = Append(h.undoStack, HistorySnapshot(doc)),
                        !.redoStack = Pop(h.redoStack),
                        !.isRecording = TRUE]]
redo_noPush(h, doc) ==
  IF Len(h.redoStack) = 0 THEN [ret |-> FALSE, doc |-> doc, h |-> h]
  ELSE [ret |-> TRUE, doc |-> Top(h.redoStack).content,
        h |-> [h EXCEPT !.redoStack = Pop(h.redoStack),
                        !.isRecording = TRUE,
                        !.lastSnapshot = Top(h.redoStack).content]]
redo(h, doc) ==
  IF Len(h.redoStack) = 0 THEN [ret |-> FALSE, doc |-> doc, h |-> h]
  ELSE [ret |-> TRUE, doc |-> Top(h.redoStack).content,
        h |-> [h EXCEPT !.undoStack = Append(h.undoStack, HistorySnapshot(doc)),
                        !.redoStack = Pop(h.redoStack),
                        !.isRecording = TRUE,
                        !.lastSnapshot = Top(h.redoStack).content]]

canUndo_redo(h) == Len(h.redoStack) > 0
canUndo(h) == Len(h.undoStack) > 0
canRedo(h) == Len(h.redoStack) > 0

clear_keepsLast(h, doc) == [h EXCEPT !.undoStack = <<>>, !.redoStack = <<>>]
clear(h, doc) == [h EXCEPT !.undoStack = <<>>, !.redoStack = <<>>, !.lastSnapshot = doc]
pause(h) == [h EXCEPT !.isRecording = FALSE]
resume(h) == [h EXCEPT !.isRecording = TRUE]

\* setTimeout: a handle no pending timer has.
NewTimer(pending) == CHOOSE i \in 1..(Cardinality(pending) + 1) : i \notin pending

\* clearTimeout(handle): cancelling a handle that is not pending does nothing.
clearTimeout_none(pending, handle) == pending
clearTimeout(pending, handle) == pending \ {handle}

\* recordSnapshotDebounced(): the handle kept and the host timers pending.
recordSnapshotDebounced_accumulates(handle, pending) ==
  LET t == NewTimer(pending)
  IN [snapshotTimer |-> t, timers |-> pending \cup {t}]
recordSnapshotDebounced_cancelOnly(handle, pending) ==
  [snapshotTimer |-> handle,
   timers |-> IF handle # 0 THEN clearTimeout(pending, handle) ELSE pending]
recordSnapshotDebounced(handle, pending) ==
  LET cleared == IF handle # 0 THEN clearTimeout(pending, handle) ELSE pending
      t == NewTimer(cleared)
  IN [snapshotTimer |-> t, timers |-> cleared \cup {t}]

\* EventEmitter.emit(event, data) as the event sink sees it: one delivery to
\* the observer registered for the event, made while the host timers `pending`
\* were armed.
emit(event, data, pending) == <<[event |-> event, data |-> data, pending |-> pending]>>

\* The 'input' listener of the editor element, run with the document already
\* changed to doc: recordSnapshotDebounced(), then emit('change', {content}).
inputListener_noEmit(doc, handle, pending) ==
  LET d == recordSnapshotDebounced(handle, pending)
  IN [snapshotTimer |-> d.snapshotTimer, timers |-> d.timers, notified |-> <<>>]
inputListener(doc, handle, pending) ==
  LET d == recordSnapshotDebounced(handle, pending)
  IN [snapshotTimer |-> d.snapshotTimer, timers |-> d.timers,
      notified |-> emit("change", doc, d.timers)]

\* The host's document.execCommand, which leaves the document doc: a changed
\* document makes the host dispatch 'input' to the editor element before
\* execCommand returns (the host's "content changed" notification).
hostExecCommand(doc, old, handle, pending) ==
  IF doc # old THEN inputListener(doc, handle, pending)
  ELSE [snapshotTimer |-> handle, timers |-> pending, notified |-> <<>>]

\* The try/catch around each handler call in EventEmitter.emit: an exception
\* the handler throws is logged and goes no further.
tryHandler_noCatch(threw) == IF threw THEN "raised" ELSE "none"
tryHandler(threw) == IF threw THEN "contained" ELSE "none"

\* FormatManager.executeCommand(command): focus, the host's execCommand (its
\* return value is dropped), then emit('formatChange', {command}), whose
\* observer throws or not.  Focus is not part of the state.
executeCommand(command, doc, old, handle, pending, throws) ==
  LET l == hostExecCommand(doc, old, handle, pending)
  IN [snapshotTimer |-> l.snapshotTimer, timers |-> l.timers,
      notified |-> l.notified \o emit("formatChange", command, l.timers),
      raised |-> tryHandler(throws) = "raised"]

----------------------------------------------------------------------------
\* EventEmitter.  A registered function is a client handler h itself
\* (wrapper = 0) or the wrapper that once() builds around h, a function of
\* its own identity (wrapper > 0).

\* The events client code registers handlers for.
Events == {"mounted", "change"}
Handlers == {"h1", "h2"}
Data == {"", "x"}
MaxListeners == 2

Fn(h, wrapper) == [h |-> h, wrapper |-> wrapper]
NoListeners == [e \in Events |-> <<>>]
Request(event, handler, data) == [event |-> event, handler |-> handler, data |-> data]
NoRequest == Request("", "", "")

\* The number of functions registered, all events together.
RECURSIVE Count(_, _)
Count(ev, es) ==
  IF es = {} THEN 0
  ELSE LET e == CHOOSE x \in es : TRUE IN Len(ev[e]) + Count(ev, es \ {e})
listenerCount(ev) == Count(ev, Events)

\* this.events[event], the array emit() iterates; an event nobody registered
\* for has none.
registered_first(ev, e) ==
  IF e \notin DOMAIN ev \/ ev[e] = <<>> THEN <<>> ELSE <<ev[e][1]>>
registered(ev, e) == IF e \in DOMAIN ev THEN ev[e] ELSE <<>>

\* EventEmitter.on(event, handler)
on(ev, e, f) == [ev EXCEPT ![e] = Append(@, f)]

\* EventEmitter.off(event, handler): the array without the functions
\* identical to handler.
off(ev, e, f) == [ev EXCEPT ![e] = SelectSeq(@, LAMBDA g : g # f)]

\* The closure once() creates: a function no other registration is identical to.
NewWrapper(ev) ==
  CHOOSE w \in 1..(listenerCount(ev) + 1) :
    \A e \in Events : \A i \in 1..Len(ev[e]) : ev[e][i].wrapper # w

\* EventEmitter.once(event, handler)
once(ev, e, h) == on(ev, e, Fn(h, NewWrapper(ev)))

\* EventEmitter.removeAllListeners()
removeAllListeners(ev) == NoListeners

\* EventEmitter.emit(event, data) run on st (events, calls so far, outcome of
\* the exceptions so far) at nesting depth `depth`.  beh gives what each
\* client handler does when called: it returns, it throws, or it emits the
\* event again the first time it is called.  forEach walks the array L it
\* was started on; a once-wrapper calls its handler and then off() on itself,
\* which an exception of the handler skips.
RECURSIVE emitFrom(_, _, _, _, _, _, _)
RECURSIVE emitRun(_, _, _, _, _)
emitRun(st, e, data, beh, depth) ==
  IF registered(st.events, e) = <<>> THEN st
  ELSE emitFrom(st, registered(st.events, e), 1, e, data, beh, depth)
emitFrom(st, L, i, e, data, beh, depth) ==
  IF i > Len(L) THEN st
  ELSE
    LET f == L[i]
        first == \A j \in 1..Len(st.calls) : st.calls[j].fn.h # f.h
        threw == beh[f.h] = "throws"
        entered == [st EXCEPT !.calls = Append(@, [fn |-> f, event |-> e, data |-> data,
                                                   depth |-> depth, threw |-> threw])]
        body == IF beh[f.h] = "emits" /\ first
                THEN emitRun(entered, e, data, beh, depth + 1)
                ELSE entered
        done == IF f.wrapper # 0 /\ ~threw
                THEN [body EXCEPT !.events = off(@, e, f)]
                ELSE body
        outcome == tryHandler(threw)
    IN IF outcome = "raised" THEN [done EXCEPT !.thrown = "raised"]
       ELSE emitFrom([done EXCEPT !.thrown = IF outcome = "contained" THEN outcome ELSE @],
                     L, i + 1, e, data, beh, depth)

----------------------------------------------------------------------------
\* SelectionManager over a document given by its text nodes.  A position is
\* the start of a range: in text node `node` at `offset`, or in the editor
\* element before its child `offset`; "outside" is a range whose
\* commonAncestorContainer the editor element does not contain, "none" is
\* rangeCount = 0 and "null" is the null a method returns.

MaxNodes == 2
MaxNodeLen == 2

Position(kind, node, offset) == [kind |-> kind, node |-> node, offset |-> offset]
Null == Position("null", 0, 0)
NoRange == Position("none", 0, 0)
Outside == Position("outside", 0, 0)

Documents == UNION {[1..n -> 0..MaxNodeLen] : n \in 0..MaxNodes}

TextPositions(doc) ==
  {q \in [kind : {"text"}, node : 1..Len(doc), offset : 0..MaxNodeLen] :
     q.offset <= doc[q.node]}
ElementPositions(doc) == {Position("element", 0, j) : j \in 0..Len(doc)}
Selections(doc) == {NoRange, Outside} \cup TextPositions(doc) \cup ElementPositions(doc)

\* Length of the text of the first n text nodes.
RECURSIVE TextBefore(_, _)
TextBefore(doc, n) == IF n = 0 THEN 0 ELSE TextBefore(doc, n - 1) + doc[n]
TextLength(doc) == TextBefore(doc, Len(doc))

\* SelectionManager.getRange()
getRange(sel) == IF sel.kind = "none" THEN Null ELSE sel

\* SelectionManager.isSelectionInEditor()
isSelectionInEditor(sel) ==
  IF getRange(sel) = Null THEN FALSE ELSE sel.kind \in {"text", "element"}

\* SelectionManager.saveSelection()
saveSelection(sel) == IF ~isSelectionInEditor(sel) THEN Null ELSE getRange(sel)

\* SelectionManager.getSelectionOffset(): the length of the text from the
\* start of the editor element to the start of the range.
getSelectionOffset(doc, sel) ==
  IF getRange(sel) = Null \/ ~isSelectionInEditor(sel) THEN 0
  ELSE IF sel.kind = "text" THEN TextBefore(doc, sel.node - 1) + sel.offset
  ELSE TextBefore(doc, sel.offset)

\* Range.setStart(node, offset) of the host: an offset outside 0..length
\* throws IndexSizeError.
setStartThrows(len, offset) == offset < 0 \/ offset > len

\* The node iterator loop of setCursorAtOffset from text node i on, charCount
\* characters passed: the first node whose end reaches offset takes the cursor.
RECURSIVE FindNode(_, _, _, _)
FindNode(doc, i, charCount, offset) ==
  IF i > Len(doc) THEN [found |-> FALSE, node |-> 0, offset |-> 0]
  ELSE IF charCount + doc[i] >= offset
       THEN [found |-> TRUE, node |-> i, offset |-> offset - charCount]
       ELSE FindNode(doc, i + 1, charCount + doc[i], offset)

\* SelectionManager.setCursorAtOffset(offset): the selection is replaced only
\* when a node was found; setStart throwing leaves it alone.
setCursorAtOffset_nodeStart(doc, sel, offset) ==
  LET f == FindNode(doc, 1, 0, offset)
  IN IF ~f.found THEN [selection |-> sel, raised |-> FALSE]
     ELSE [selection |-> Position("text", f.node, 0), raised |-> FALSE]
setCursorAtOffset(doc, sel, offset) ==
  LET f == FindNode(doc, 1, 0, offset)
  IN IF ~f.found THEN [selection |-> sel, raised |-> FALSE]
     ELSE IF setStartThrows(doc[f.node], f.offset)
          THEN [selection |-> sel, raised |-> TRUE]
          ELSE [selection |-> Position("text", f.node, f.offset), raised |-> FALSE]

\* What a selection operation hands back: a range, an offset, a flag, and
\* whether it threw.
Result(range, offset, flag, threw) ==
  [range |-> range, offset |-> offset, flag |-> flag, raised |-> threw]
NoResult == Result(Null, 0, FALSE, FALSE)

\* The host's document.queryCommandState(command): the state of the command
\* at the active range, false when there is none.
hostQueryCommandState(command, sel, active) == sel.kind # "none" /\ active

\* FormatManager.isFormatActive(command)
isFormatActive_collapses(command, sel, active) ==
  [ret |-> hostQueryCommandState(command, sel, active), selection |-> NoRange]
isFormatActive(command, sel, active) ==
  [ret |-> hostQueryCommandState(command, sel, active), selection |-> sel]

----------------------------------------------------------------------------
\* Toolbar: the preset button layouts and the routing of an activated button.

\* ToolbarButtonConfig: a plain button, a button that prompts, a dropdown
\* with its option values, a colour picker.
Config(command, type, prompt, options) ==
  [command |-> command, type |-> type, prompt |-> prompt, options |-> options]
Button(command) == Config(command, "button", FALSE, {})
Prompting(command) == Config(command, "button", TRUE, {})
Dropdown(command, options) == Config(command, "dropdown", FALSE, options)
Color(command) == Config(command, "color", FALSE, {})
Group(name, buttons) == [name |-> name, buttons |-> buttons]

TOOLBAR_PRESETS ==
  [minimal |->
     << Group("history", <<Button("undo"), Button("redo")>>),
        Group("textFormat", <<Button("bold"), Button("italic"), Button("underline")>>) >>,
   standard |->
     << Group("history", <<Button("undo"), Button("redo")>>),
        Group("textFormat", <<Button("bold"), Button("italic"), Button("underline"),
                              Button("strikeThrough")>>),
        Group("headings", <<Dropdown("formatBlock", {"p", "h1", "h2", "h3"})>>),
        Group("lists", <<Button("insertUnorderedList"), Button("insertOrderedList")>>),
        Group("alignment", <<Button("justifyLeft"), Button("justifyCenter"),
                             Button("justifyRight")>>),
        Group("insert", <<Prompting("createLink"), Prompting("insertImage")>>) >>,
   full |->
     << Group("history", <<Button("undo"), Button("redo")>>),
        Group("textFormat", <<Button("bold"), Button("italic"), Button("underline"),
                              Button("strikeThrough"), Button("subscript"),
                              Button("superscript")>>),
        Group("headings", <<Dropdown("formatBlock",
                                     {"p", "h1", "h2", "h3", "h4", "h5", "h6"})>>),
        Group("fontStyle", <<Dropdown("fontName", {"Arial", "Georgia", "Times New Roman",
                                                   "Courier New", "Verdana"}),
                             Dropdown("fontSize", {"1", "2", "3", "4", "5", "6", "7"})>>),
        Group("colors", <<Color("foreColor"), Color("backColor")>>),
        Group("lists", <<Button("insertUnorderedList"), Button("insertOrderedList"),
                         Button("indent"), Button("outdent")>>),
        Group("alignment", <<Button("justifyLeft"), Button("justifyCenter"),
                             Button("justifyRight"), Button("justifyFull")>>),
        Group("blocks", <<Button("quote"), Button("code"), Button("codeBlock")>>),
        Group("insert", <<Prompting("createLink"), Button("unlink"),
                          Prompting("insertImage"), Button("insertHorizontalRule")>>),
        Group("clear", <<Button("removeFormat")>>) >>]

Presets == DOMAIN TOOLBAR_PRESETS

\* getToolbarConfig(preset)
getToolbarConfig(preset) ==
  IF preset \in Presets THEN TOOLBAR_PRESETS[preset] ELSE TOOLBAR_PRESETS.standard

\* The button configurations of a layout, all groups together.
ButtonsOf(layout) ==
  UNION {{layout[g].buttons[b] : b \in 1..Len(layout[g].buttons)} : g \in 1..Len(layout)}

\* Toolbar.buttonElements: one entry per command.
ButtonCommands(layout) == {b.command : b \in ButtonsOf(layout)}

\* Colours a colour input hands over, and what window.prompt returns ("" is
\* also the cancelled prompt: the code tests the answer for truthiness only).
Colors == {"#000000", "#ff0000"}
Answers == {"", "u"}

\* The values the control of a button can carry when it is activated: none
\* for a click, the chosen option of a dropdown, the colour of a picker.
ValuesOf(config) ==
  CASE config.type = "dropdown" -> config.options
    [] config.type = "color" -> Colors
    [] OTHER -> {""}

\* A call the toolbar makes on the editor or on its format manager.
Call(target, method, argument) ==
  [target |-> target, method |-> method, argument |-> argument]

\* Toolbar.executePromptCommand(command), the user answering the prompt
executePromptCommand(command, answer) ==
  CASE command = "createLink" /\ answer # "" -> <<Call("editor", "createLink", answer)>>
    [] command = "insertImage" /\ answer # "" -> <<Call("editor", "insertImage", answer)>>
    [] OTHER -> <<>>

\* Toolbar.isEditorMethod(command)
isEditorMethod(command) ==
  command \in {"undo", "redo", "bold", "italic", "underline", "strikethrough"}

\* Toolbar.executeEditorMethod(command)
executeEditorMethod(command) ==
  CASE command = "undo" -> <<Call("editor", "undo", "")>>
    [] command = "redo" -> <<Call("editor", "redo", "")>>
    [] command = "bold" -> <<Call("editor", "bold", "")>>
    [] command = "italic" -> <<Call("editor", "italic", "")>>
    [] command = "underline" -> <<Call("editor", "underline", "")>>
    [] command = "strikethrough" -> <<Call("editor", "strikethrough", "")>>
    [] OTHER -> <<>>

\* Toolbar.isFormatCommand(command)
isFormatCommand(command) ==
  command \in {"subscript", "superscript", "insertUnorderedList", "insertOrderedList",
               "indent", "outdent", "justifyLeft", "justifyCenter", "justifyRight",
               "justifyFull", "insertHorizontalRule", "removeFormat", "foreColor",
               "backColor", "fontName", "fontSize", "formatBlock", "unlink"}

\* Toolbar.executeFormatCommand(command, value)
executeFormatCommand(command, value) ==
  IF value # ""
  THEN CASE command = "formatBlock" -> <<Call("formatManager", "formatBlock", value)>>
         [] command = "foreColor" -> <<Call("formatManager", "setTextColor", value)>>
         [] command = "backColor" -> <<Call("formatManager", "setBackgroundColor", value)>>
         [] command = "fontName" -> <<Call("formatManager", "setFontName", value)>>
         [] command = "fontSize" -> <<Call("formatManager", "setFontSize", value)>>
         [] OTHER -> <<>>
  ELSE IF command \in {"subscript", "superscript", "insertUnorderedList",
                       "insertOrderedList", "indent", "outdent", "justifyLeft",
                       "justifyCenter", "justifyRight", "justifyFull",
                       "insertHorizontalRule", "removeFormat", "unlink"}
       THEN <<Call("formatManager", command, "")>>
       ELSE <<>>

\* Toolbar.isCustomCommand(command)
isCustomCommand(command) ==
  command \in {"quote", "code", "codeBlock", "createLink", "insertImage"}

\* Toolbar.executeCustomCommand(command)
executeCustomCommand(command) ==
  CASE command = "quote" -> <<Call("editor", "insertBlockquote", "")>>
    [] command = "code" -> <<Call("editor", "insertInlineCode", "")>>
    [] command = "codeBlock" -> <<Call("editor", "insertCodeBlock", "")>>
    [] OTHER -> <<>>

\* Toolbar.isCommandActive(command), hostActive being the commands whose
\* state the host holds active at the range sel.
isCommandActive(command, sel, hostActive) ==
  CASE command \in {"bold", "italic", "underline"} ->
         isFormatActive(command, sel, command \in hostActive).ret
    [] command \in {"strikeThrough", "strikethrough"} ->
         isFormatActive("strikeThrough", sel, "strikeThrough" \in hostActive).ret
    [] OTHER -> hostQueryCommandState(command, sel, command \in hostActive)

\* Toolbar.updateButtonStates(): the buttons left with the class 'active'.
updateButtonStates(commands, sel, hostActive) ==
  {c \in commands : isCommandActive(c, sel, hostActive)}

\* Toolbar.executeCommand(config, value): the calls it makes and the buttons
\* it leaves active (a prompting button returns before the update).
toolbarExecuteCommand(config, value, answer, sel, hostActive, commands, wasActive) ==
  LET command == config.command
  IN IF config.prompt
     THEN [calls |-> executePromptCommand(command, answer), active |-> wasActive]
     ELSE [calls |-> IF isEditorMethod(command) THEN executeEditorMethod(command)
                     ELSE IF isFormatCommand(command)
                          THEN executeFormatCommand(command, value)
                          ELSE IF isCustomCommand(command)
                               THEN executeCustomCommand(command)
                               ELSE <<>>,
           active |-> updateButtonStates(commands, sel, hostActive)]

Click(config, value, answer) == [config |-> config, value |-> value, answer |-> answer]
NoClick == Click(Config("", "", FALSE, {}), "", "")

\* new Toolbar(editor, getToolbarConfig(preset))
ToolbarBuilt(preset) ==
  /\ groups = preset
  /\ activeButtons = {}
  /\ clicked = NoClick
  /\ routed = <<>>

----------------------------------------------------------------------------
\* PluginManager: the plugins of an editor, a Map from name to plugin.

\* Plugin objects client code holds, and the name each one carries: p1 and p2
\* are two plugins of the same name.
Plugins == {"p1", "p2", "q1"}
nameOf == [p1 |-> "p", p2 |-> "p", q1 |-> "q"]
PluginNames == {nameOf[p] : p \in Plugins}

\* A plugin callback or an event the editor emitted.
Did(fn, who) == [fn |-> fn, who |-> who]

\* PluginManager.has(name), PluginManager.get(name)
has(ps, name) == \E i \in 1..Len(ps) : nameOf[ps[i]] = name
get(ps, name) == ps[CHOOSE i \in 1..Len(ps) : nameOf[ps[i]] = name]

\* PluginManager.register(plugin); throws holds the plugins whose callback
\* throws during the call.
register(ps, plugin, throws) ==
  IF has(ps, nameOf[plugin])
  THEN [plugins |-> ps, lifecycle |-> <<>>, thrown |-> FALSE]
  ELSE [plugins |-> Append(ps, plugin),
        lifecycle |-> <<Did("init", plugin)>>,
        thrown |-> plugin \in throws]

\* PluginManager.unregister(name)
unregister(ps, name, throws) ==
  IF has(ps, name)
  THEN LET plugin == get(ps, name)
       IN IF plugin \in throws
          THEN [plugins |-> ps, lifecycle |-> <<Did("onDestroy", plugin)>>,
                thrown |-> TRUE]
          ELSE [plugins |-> SelectSeq(ps, LAMBDA q : q # plugin),
                lifecycle |-> <<Did("onDestroy", plugin)>>,
                thrown |-> FALSE]
  ELSE [plugins |-> ps, lifecycle |-> <<>>, thrown |-> FALSE]

\* The forEach of destroyAll() from the i-th plugin on: it ends at the first
\* onDestroy() that throws.
RECURSIVE destroyFrom(_, _, _)
destroyFrom(ps, i, throws) ==
  IF i > Len(ps) THEN [lifecycle |-> <<>>, thrown |-> FALSE]
  ELSE IF ps[i] \in throws
       THEN [lifecycle |-> <<Did("onDestroy", ps[i])>>, thrown |-> TRUE]
       ELSE LET rest == destroyFrom(ps, i + 1, throws)
            IN [lifecycle |-> <<Did("onDestroy", ps[i])>> \o rest.lifecycle,
                thrown |-> rest.thrown]

\* PluginManager.destroyAll()
destroyAll(ps, throws) ==
  LET r == destroyFrom(ps, 1, throws)
  IN [plugins |-> IF r.thrown THEN ps ELSE <<>>,
      lifecycle |-> r.lifecycle,
      thrown |-> r.thrown]

\* Editor.destroy() as the plugins see it: destroyAll(), then the 'destroyed'
\* event; removeChild throws when the wrapper was removed before.
destroyEditor(ps, throws, wasDestroyed) ==
  LET r == destroyAll(ps, throws)
  IN IF r.thrown
     THEN [plugins |-> r.plugins, lifecycle |-> r.lifecycle,
           thrown |-> TRUE, destroyed |-> wasDestroyed]
     ELSE [plugins |-> r.plugins,
           lifecycle |-> Append(r.lifecycle, Did("emit", "destroyed")),
           thrown |-> wasDestroyed, destroyed |-> TRUE]

\* The onDestroy() calls each plugin has had since it was registered, after
\* the callbacks of lc; the count stops at two.
RECURSIVE Counted(_, _)
Counted(counts, lc) ==
  IF lc = <<>> THEN counts
  ELSE LET c == Head(lc)
           n == IF c.fn = "init" THEN [counts EXCEPT ![c.who] = 0]
                ELSE IF c.fn = "onDestroy"
                     THEN [counts EXCEPT ![c.who] = IF @ < 2 THEN @ + 1 ELSE @]
                     ELSE counts
       IN Counted(n, Tail(lc))

\* new PluginManager(editor)
NoPlugins ==
  /\ plugins = <<>>
  /\ onDestroyCalls = [p \in Plugins |-> 0]
  /\ lifecycle = <<>>
  /\ asked = ""
  /\ prePlugins = <<>>
  /\ pluginThrown = FALSE

----------------------------------------------------------------------------
\* State updates shared by the actions.

SetStore(h) ==
  /\ undoStack' = h.undoStack
  /\ redoStack' = h.redoStack
  /\ isRecording' = h.isRecording
  /\ lastSnapshot' = h.lastSnapshot

Log(op, r) ==
  /\ lastOp' = op
  /\ ret' = r
  /\ prevOp' = lastOp
  /\ prevRet' = ret
  /\ pre' = [content |-> content, h |-> HM,
             snapshotTimer |-> snapshotTimer, timers |-> timers]
  /\ UNCHANGED <<selecting, listening, toolbar, plugging>>

\* The contents recorded in a row, the last maxStackSize + 1 of them.
Recorded(h, doc) ==
  IF Pushes(h, doc)
  THEN LET r == Append(recorded, doc)
       IN IF Len(r) > maxStackSize + 1 THEN Tail(r) ELSE r
  ELSE recorded

----------------------------------------------------------------------------
Constructed ==
  /\ content \in Contents
  /\ undoStack = <<>>
  /\ redoStack = <<>>
  /\ isRecording = TRUE
  /\ lastSnapshot = ""
  /\ snapshotTimer = 0
  /\ timers = {}
  /\ destroyed = FALSE
  /\ notified = <<>>
  /\ raised = FALSE
  /\ paused = FALSE
  /\ recorded = <<>>
  /\ lastOp = "new"
  /\ ret = FALSE
  /\ prevOp = "new"
  /\ prevRet = FALSE
  /\ pre = [content |-> content, h |-> HM,
            snapshotTimer |-> snapshotTimer, timers |-> timers]
  /\ nodes = <<>>
  /\ selection = NoRange
  /\ arg = 0
  /\ out = NoResult
  /\ events = NoListeners
  /\ calls = <<>>
  /\ request = NoRequest
  /\ emitThrown = "none"

\* new Editor(config): the toolbar of the default preset, no plugin yet.
Init ==
  /\ Constructed
  /\ ToolbarBuilt("standard")
  /\ NoPlugins

\* The user edits the document to c; the 'input' listener then runs
\* recordSnapshotDebounced(): cancel the pending timer, arm a new one.
Input(c) ==
  /\ ~destroyed
  /\ content' = c
  /\ LET l == inputListener(c, snapshotTimer, timers)
     IN /\ snapshotTimer' = l.snapshotTimer
        /\ timers' = l.timers
        /\ notified' = l.notified
  /\ raised' = FALSE
  /\ Log("input", FALSE)
  /\ UNCHANGED <<store, destroyed, paused, recorded>>

\* FormatManager.executeCommand(command): the host reports ok and leaves the
\* document c (the document it had when it reports failure); the observer of
\* 'formatChange' throws or returns.
ExecCommand(command, ok, c, throws) ==
  /\ ~destroyed
  /\ ok \/ c = content
  /\ content' = c
  /\ LET e == executeCommand(command, c, content, snapshotTimer, timers, throws)
     IN /\ snapshotTimer' = e.snapshotTimer
        /\ timers' = e.timers
        /\ notified' = e.notified
        /\ raised' = e.raised
  /\ Log("execCommand", ok)
  /\ UNCHANGED <<store, destroyed, paused, recorded>>

\* Editor.destroy(): plugins and toolbar are torn down, 'destroyed' is
\* emitted, the listeners are removed, the wrapper leaves the container.
\* The history manager is not touched.
Destroy ==
  /\ ~destroyed
  /\ destroyed' = TRUE
  /\ notified' = emit("destroyed", "", timers)
  /\ raised' = FALSE
  /\ Log("destroy", FALSE)
  /\ UNCHANGED <<content, store, snapshotTimer, timers, paused, recorded>>

\* Editor.setContent(c)
SetContent_notifies(c) ==
  /\ ~destroyed
  /\ content' = c
  /\ LET l == inputListener(c, snapshotTimer, timers)
     IN /\ snapshotTimer' = l.snapshotTimer
        /\ timers' = l.timers
        /\ notified' = l.notified
  /\ raised' = FALSE
  /\ Log("setContent", FALSE)
  /\ UNCHANGED <<store, destroyed, paused, recorded>>
SetContent(c) ==
  /\ ~destroyed
  /\ notified' = <<>>
  /\ raised' = FALSE
  /\ content' = c
  /\ Log("setContent", FALSE)
  /\ UNCHANGED <<store, snapshotTimer, timers, paused, recorded, destroyed>>

\* HistoryManager.recordSnapshot() called directly
RecordSnapshot ==
  /\ ~destroyed
  /\ notified' = <<>>
  /\ raised' = FALSE
  /\ SetStore(recordSnapshot(HM, content))
  /\ recorded' = Recorded(HM, content)
  /\ Log("recordSnapshot", FALSE)
  /\ UNCHANGED <<content, snapshotTimer, timers, paused, destroyed>>

\* The debounce timer t expires: its callback runs recordSnapshot()
TimerFires(t) ==
  /\ t \in timers
  /\ notified' = <<>>
  /\ raised' = FALSE
  /\ timers' = timers \ {t}
  /\ SetStore(recordSnapshot(HM, content))
  /\ recorded' = Recorded(HM, content)
  /\ Log("timer", FALSE)
  /\ UNCHANGED <<content, snapshotTimer, paused, destroyed>>

\* Editor.undo() -> HistoryManager.undo()
Undo ==
  LET r == undo(HM, content)
  IN /\ ~destroyed
     /\ notified' = <<>>
     /\ raised' = FALSE
     /\ SetStore(r.h)
     /\ content' = r.doc
     /\ recorded' = IF r.ret THEN <<>> ELSE recorded
     /\ Log("undo", r.ret)
     /\ UNCHANGED <<snapshotTimer, timers, paused, destroyed>>

\* Editor.redo() -> HistoryManager.redo()
Redo ==
  LET r == redo(HM, content)
  IN /\ ~destroyed
     /\ notified' = <<>>
     /\ raised' = FALSE
     /\ SetStore(r.h)
     /\ content' = r.doc
     /\ recorded' = IF r.ret THEN <<>> ELSE recorded
     /\ Log("redo", r.ret)
     /\ UNCHANGED <<snapshotTimer, timers, paused, destroyed>>

\* Editor.canUndo()
CanUndo ==
  /\ ~destroyed
  /\ notified' = <<>>
  /\ raised' = FALSE
  /\ Log("canUndo", canUndo(HM))
  /\ UNCHANGED <<content, store, snapshotTimer, timers, paused, recorded, destroyed>>

\* Editor.canRedo()
CanRedo ==
  /\ ~destroyed
  /\ notified' = <<>>
  /\ raised' = FALSE
  /\ Log("canRedo", canRedo(HM))
  /\ UNCHANGED <<content, store, snapshotTimer, timers, paused, recorded, destroyed>>

\* HistoryManager.clear()
Clear ==
  /\ ~destroyed
  /\ notified' = <<>>
  /\ raised' = FALSE
  /\ SetStore(clear(HM, content))
  /\ recorded' = <<>>
  /\ Log("clear", FALSE)
  /\ UNCHANGED <<content, snapshotTimer, timers, paused, destroyed>>

\* HistoryManager.pause()
Pause ==
  /\ ~destroyed
  /\ notified' = <<>>
  /\ raised' = FALSE
  /\ SetStore(pause(HM))
  /\ paused' = TRUE
  /\ Log("pause", FALSE)
  /\ UNCHANGED <<content, snapshotTimer, timers, recorded, destroyed>>

\* HistoryManager.resume()
Resume ==
  /\ ~destroyed
  /\ notified' = <<>>
  /\ raised' = FALSE
  /\ SetStore(resume(HM))
  /\ paused' = FALSE
  /\ Log("resume", FALSE)
  /\ UNCHANGED <<content, snapshotTimer, timers, recorded, destroyed>>

Next ==
  \/ \E c \in Contents : Input(c)
  \/ \E command \in Commands, ok \in BOOLEAN, c \in Contents, throws \in BOOLEAN :
       ExecCommand(command, ok, c, throws)
  \/ Destroy
  \/ \E c \in Contents : SetContent(c)
  \/ RecordSnapshot
  \/ \E t \in timers : TimerFires(t)
  \/ Undo
  \/ Redo
  \/ CanUndo
  \/ CanRedo
  \/ Clear
  \/ Pause
  \/ Resume

Spec == Init /\ [][Next]_vars

\* An editing session: the operations that decide what a timer callback
\* finds, with the host running every timer that stays pending.
EditingNext ==
  \/ \E c \in Contents : Input(c)
  \/ \E command \in Commands, ok \in BOOLEAN, c \in Contents, throws \in BOOLEAN :
       ExecCommand(command, ok, c, throws)
  \/ \E c \in Contents : SetContent(c)
  \/ \E t \in timers : TimerFires(t)
  \/ RecordSnapshot
  \/ Undo
  \/ Pause
  \/ Resume

FairSpec ==
  Init /\ [][EditingNext]_vars /\ WF_vars(\E t \in timers : TimerFires(t))

----------------------------------------------------------------------------
\* The selection API on an editor whose document is nodes: the host moves the
\* selection, the client queries, saves and restores it.  The history engine
\* is in a state the constructor, a recorded snapshot and an input leave, and
\* none of these operations reaches it.

\* Offsets handed to setCursorAtOffset: below zero, in range, past the end.
Offsets == (-1)..(MaxNodes * MaxNodeLen + 1)

SelectionInit ==
  /\ content \in Contents
  /\ \E rec \in BOOLEAN :
       LET h == [undoStack |-> <<>>, redoStack |-> <<>>,
                 isRecording |-> TRUE, lastSnapshot |-> ""]
           r == IF rec THEN recordSnapshot(h, content) ELSE h
       IN /\ undoStack = r.undoStack
          /\ redoStack = r.redoStack
          /\ isRecording = r.isRecording
          /\ lastSnapshot = r.lastSnapshot
  /\ \E armed \in BOOLEAN :
       LET d == IF armed THEN recordSnapshotDebounced(0, {})
                ELSE [snapshotTimer |-> 0, timers |-> {}]
       IN snapshotTimer = d.snapshotTimer /\ timers = d.timers
  /\ destroyed = FALSE
  /\ notified = <<>>
  /\ raised = FALSE
  /\ paused = FALSE
  /\ recorded = <<>>
  /\ lastOp = "new"
  /\ ret = FALSE
  /\ prevOp = "new"
  /\ prevRet = FALSE
  /\ pre = [content |-> content, h |-> HM,
            snapshotTimer |-> snapshotTimer, timers |-> timers]
  /\ nodes \in Documents
  /\ selection \in Selections(nodes)
  /\ arg = 0
  /\ out = NoResult
  /\ events = NoListeners
  /\ calls = <<>>
  /\ request = NoRequest
  /\ emitThrown = "none"
  /\ ToolbarBuilt("standard")
  /\ NoPlugins

Called(op) == lastOp' = op /\ UNCHANGED <<prevOp, toolbar, plugging>>

\* The host's 'selectionchange': the user or a script moves the selection.
SelectionChange(sel) ==
  /\ selection' = sel
  /\ arg' = 0
  /\ out' = NoResult
  /\ Called("selectionchange")
  /\ UNCHANGED <<editing, listening, nodes>>

\* Editor.getRange() -> SelectionManager.getRange()
GetRange ==
  /\ out' = Result(getRange(selection), 0, FALSE, FALSE)
  /\ arg' = 0
  /\ Called("getRange")
  /\ UNCHANGED <<editing, listening, nodes, selection>>

\* SelectionManager.saveSelection()
SaveSelection ==
  /\ out' = Result(saveSelection(selection), 0, FALSE, FALSE)
  /\ arg' = 0
  /\ Called("saveSelection")
  /\ UNCHANGED <<editing, listening, nodes, selection>>

\* SelectionManager.getSelectionOffset()
GetSelectionOffset ==
  /\ out' = Result(Null, getSelectionOffset(nodes, selection), FALSE, FALSE)
  /\ arg' = 0
  /\ Called("getSelectionOffset")
  /\ UNCHANGED <<editing, listening, nodes, selection>>

\* SelectionManager.setCursorAtOffset(offset)
SetCursorAtOffset(offset) ==
  LET r == setCursorAtOffset(nodes, selection, offset)
  IN /\ selection' = r.selection
     /\ out' = Result(Null, 0, FALSE, r.raised)
     /\ arg' = offset
     /\ Called("setCursorAtOffset")
     /\ UNCHANGED <<editing, listening, nodes>>

\* FormatManager.isFormatActive(command), the host holding the command's
\* state active at the range or not.
IsFormatActive(command, active) ==
  LET r == isFormatActive(command, selection, active)
  IN /\ selection' = r.selection
     /\ out' = Result(Null, 0, r.ret, FALSE)
     /\ arg' = 0
     /\ Called("isFormatActive")
     /\ UNCHANGED <<editing, listening, nodes>>

SelectionNext ==
  \/ \E sel \in Selections(nodes) : SelectionChange(sel)
  \/ GetRange
  \/ SaveSelection
  \/ GetSelectionOffset
  \/ \E offset \in Offsets : SetCursorAtOffset(offset)
  \/ \E command \in Commands, active \in BOOLEAN : IsFormatActive(command, active)

SelectionSpec == SelectionInit /\ [][SelectionNext]_vars

----------------------------------------------------------------------------
\* An EventEmitter used directly by client code, as the constructor leaves it.

Behaviours == [Handlers -> {"returns", "throws", "emits"}]

EmitterInit ==
  /\ Init
  /\ content = ""

Asked(op, event, handler, data) ==
  /\ lastOp' = op
  /\ request' = Request(event, handler, data)
  /\ UNCHANGED <<editing, selecting, toolbar, plugging, prevOp>>

\* emitter.on(e, h)
On(e, h) ==
  /\ lastOp # "destroy"
  /\ listenerCount(events) < MaxListeners
  /\ events' = on(events, e, Fn(h, 0))
  /\ Asked("on", e, h, "")
  /\ calls' = <<>>
  /\ emitThrown' = "none"

\* emitter.once(e, h)
Once(e, h) ==
  /\ lastOp # "destroy"
  /\ listenerCount(events) < MaxListeners
  /\ events' = once(events, e, h)
  /\ Asked("once", e, h, "")
  /\ calls' = <<>>
  /\ emitThrown' = "none"

\* emitter.off(e, h)
Off(e, h) ==
  /\ lastOp # "destroy"
  /\ events' = off(events, e, Fn(h, 0))
  /\ Asked("off", e, h, "")
  /\ calls' = <<>>
  /\ emitThrown' = "none"

\* emitter.emit(e, data), the handlers behaving as beh says
Emit(e, data, beh) ==
  LET r == emitRun([events |-> events, calls |-> <<>>, thrown |-> "none"],
                   e, data, beh, 0)
  IN /\ lastOp # "destroy"
     /\ events' = r.events
     /\ calls' = r.calls
     /\ emitThrown' = r.thrown
     /\ Asked("emit", e, "", data)

\* emitter.removeAllListeners()
RemoveAllListeners ==
  /\ lastOp # "destroy"
  /\ events' = removeAllListeners(events)
  /\ Asked("removeAllListeners", "", "", "")
  /\ calls' = <<>>
  /\ emitThrown' = "none"

EmitterNext ==
  \/ \E e \in Events, h \in Handlers : On(e, h)
  \/ \E e \in Events, h \in Handlers : Once(e, h)
  \/ \E e \in Events, h \in Handlers : Off(e, h)
  \/ \E e \in Events, data \in Data, beh \in Behaviours : Emit(e, data, beh)
  \/ RemoveAllListeners

EmitterSpec == EmitterInit /\ [][EmitterNext]_vars

----------------------------------------------------------------------------
\* The emitter behind the Editor facade: the client reaches on(), once() and
\* off() only; the editor emits 'mounted' at the end of its constructor,
\* 'change' from its input listener and 'destroyed' from destroy(), and the
\* host keeps delivering input while the editor lives.

EditorBehaviours == [Handlers -> {"returns", "throws"}]
NewEmitter == [events |-> NoListeners, calls |-> <<>>, thrown |-> "none"]

\* new Editor(config) has returned: emit('mounted') ran on the new emitter.
MountedInit ==
  /\ EmitterInit
  /\ \E beh \in EditorBehaviours :
       LET r == emitRun(NewEmitter, "mounted", "", beh, 0)
       IN events = r.events /\ calls = r.calls /\ emitThrown = r.thrown

\* Editor.destroy(): emit('destroyed'), then removeAllListeners()
DestroyEditor(beh) ==
  LET r == emitRun([events |-> events, calls |-> <<>>, thrown |-> "none"],
                   "destroyed", "", beh, 0)
  IN /\ lastOp # "destroy"
     /\ events' = removeAllListeners(r.events)
     /\ calls' = r.calls
     /\ emitThrown' = r.thrown
     /\ Asked("destroy", "destroyed", "", "")

MountedNext ==
  \/ \E e \in Events, h \in Handlers : On(e, h)
  \/ \E e \in Events, h \in Handlers : Once(e, h)
  \/ \E e \in Events, h \in Handlers : Off(e, h)
  \/ \E data \in Data, beh \in EditorBehaviours : Emit("change", data, beh)  \* input listener
  \/ \E beh \in EditorBehaviours : DestroyEditor(beh)

MountedSpec ==
  /\ MountedInit
  /\ [][MountedNext]_vars
  /\ WF_vars(\E data \in Data, beh \in EditorBehaviours : Emit("change", data, beh))

----------------------------------------------------------------------------
\* The toolbar of an editor built with one of the presets: the user activates
\* its buttons and moves the selection.  The calls a button makes on the
\* editor are recorded, not run: the history engine stays as constructed.

\* Formats the host can hold active at the selection.
HostFormats == {"bold", "strikeThrough"}

ToolbarInit ==
  /\ Constructed
  /\ content = ""
  /\ \E preset \in Presets : ToolbarBuilt(preset)
  /\ NoPlugins

\* The click on a button, the change of a dropdown or of a colour input:
\* Toolbar.executeCommand(config, value)
ClickButton(config, value, answer, hostActive) ==
  LET layout == getToolbarConfig(groups)
      r == toolbarExecuteCommand(config, value, answer, selection, hostActive,
                                 ButtonCommands(layout), activeButtons)
  IN /\ config \in ButtonsOf(layout)
     /\ value \in ValuesOf(config)
     /\ clicked' = Click(config, value, answer)
     /\ routed' = r.calls
     /\ activeButtons' = r.active
     /\ lastOp' = "click"
     /\ UNCHANGED <<groups, editing, selecting, listening, plugging, prevOp>>

\* The host's 'selectionchange': the editor emits 'selectionChange' when the
\* range is inside it, and the toolbar's listener updates the button states.
ToolbarSelectionChange(sel, hostActive) ==
  /\ selection' = sel
  /\ activeButtons' = IF sel.kind \in {"text", "element"}
                      THEN updateButtonStates(ButtonCommands(getToolbarConfig(groups)),
                                              sel, hostActive)
                      ELSE activeButtons
  /\ clicked' = NoClick
  /\ routed' = <<>>
  /\ lastOp' = "selectionChange"
  /\ UNCHANGED <<groups, editing, nodes, arg, out, listening, plugging, prevOp>>

ToolbarNext ==
  \/ \E config \in ButtonsOf(getToolbarConfig(groups)), hostActive \in SUBSET HostFormats :
       \E value \in ValuesOf(config), answer \in IF config.prompt THEN Answers ELSE {""} :
         ClickButton(config, value, answer, hostActive)
  \/ \E sel \in Selections(nodes), hostActive \in SUBSET HostFormats :
       ToolbarSelectionChange(sel, hostActive)

ToolbarSpec == ToolbarInit /\ [][ToolbarNext]_vars

----------------------------------------------------------------------------
\* The plugins of an editor: client code registers and unregisters plugins
\* and destroys the editor; a plugin's callback returns or throws.

PluginInit ==
  /\ Init
  /\ content = ""

Plugged(op, r, whom) ==
  /\ plugins' = r.plugins
  /\ lifecycle' = r.lifecycle
  /\ onDestroyCalls' = Counted(onDestroyCalls, r.lifecycle)
  /\ pluginThrown' = r.thrown
  /\ asked' = whom
  /\ prePlugins' = plugins
  /\ lastOp' = op
  /\ UNCHANGED <<content, store, snapshotTimer, timers, notified, raised, paused,
                 recorded, ret, prevRet, pre, selecting, listening, toolbar, prevOp>>

\* editor.registerPlugin(plugin)
RegisterPlugin(plugin, throws) ==
  /\ Plugged("registerPlugin", register(plugins, plugin, throws), plugin)
  /\ UNCHANGED destroyed

\* editor.unregisterPlugin(name)
UnregisterPlugin(name, throws) ==
  /\ Plugged("unregisterPlugin", unregister(plugins, name, throws), name)
  /\ UNCHANGED destroyed

\* editor.destroy()
DestroyPlugins(throws) ==
  LET r == destroyEditor(plugins, throws, destroyed)
  IN /\ Plugged("destroy", r, "")
     /\ destroyed' = r.destroyed

PluginNext ==
  \/ \E plugin \in Plugins, throws \in SUBSET Plugins : RegisterPlugin(plugin, throws)
  \/ \E name \in PluginNames, throws \in SUBSET Plugins : UnregisterPlugin(name, throws)
  \/ \E throws \in SUBSET Plugins : DestroyPlugins(throws)

PluginSpec == PluginInit /\ [][PluginNext]_vars

----------------------------------------------------------------------------
TypeOK ==
  /\ content \in Contents
  /\ lastSnapshot \in Contents
  /\ isRecording \in BOOLEAN
  /\ snapshotTimer \in 0..2
  /\ timers \subseteq 1..2

----------------------------------------------------------------------------
\* Properties of the history engine.

RecordOps == {"recordSnapshot", "timer"}

\* The store and the timer are as they were before the last operation.
StoreUntouched == HM = pre.h
NothingTouched ==
  /\ content = pre.content
  /\ HM = pre.h
  /\ snapshotTimer = pre.snapshotTimer
  /\ timers = pre.timers

\* C1: in every reachable state the undo stack holds at most maxStackSize
\* snapshots, the push of redo() included.
C1_UndoStackBounded == Len(undoStack) <= maxStackSize

\* C1 witness: redo() has pushed onto the undo stack and filled it.
C1_Witness == lastOp = "redo" /\ ret /\ Len(undoStack) = maxStackSize

\* C2: after undo() returns true on a store whose last two recorded contents
\* are X then Y (X # Y, the debounce timer ran last, document Y), the document
\* is X; the redo() that follows returns true and the document is Y again.
C2_UndoRestoresPrevious ==
  /\ ( /\ lastOp = "undo" /\ ret /\ prevOp = "timer"
       /\ Len(pre.h.undoStack) >= 2
       /\ Top(pre.h.undoStack).content = pre.content
       /\ pre.h.undoStack[Len(pre.h.undoStack) - 1].content # pre.content )
     => content = pre.h.undoStack[Len(pre.h.undoStack) - 1].content
  /\ (lastOp = "redo" /\ prevOp = "undo" /\ prevRet)
     => (ret /\ content = Top(pre.h.redoStack).content)

\* C3: when undo() returns true and redo() is called immediately afterwards,
\* redo() returns true and the document is what it was before the undo().
C3_RoundTrip ==
  [][(lastOp = "undo" /\ ret /\ lastOp' = "redo")
       => (ret' /\ content' = pre.content)]_vars

\* C3 witness: redo() ran right after a successful undo() and changed the
\* document back.
C3_Witness ==
  lastOp = "redo" /\ ret /\ prevOp = "undo" /\ prevRet /\ content # pre.content

\* C4: a recordSnapshot() that pushes leaves the redo stack empty, lastSnapshot
\* equal to the pushed content and the pushed snapshot on top of the undo stack.
C4_PushEffects ==
  (lastOp \in RecordOps /\ Pushes(pre.h, pre.content))
    => /\ redoStack = <<>>
       /\ lastSnapshot = pre.content
       /\ undoStack # <<>>
       /\ Top(undoStack).content = pre.content

\* C4 witness: a push happened while the redo stack held a snapshot.
C4_Witness ==
  /\ lastOp \in RecordOps /\ Pushes(pre.h, pre.content)
  /\ pre.h.redoStack # <<>>

\* C5: after undo() returned true and the user then changed the document, the
\* redo() called next returns false and leaves the edited document alone.
C5_EditInvalidatesRedo ==
  [][( /\ prevOp = "undo" /\ prevRet
       /\ lastOp = "input" /\ content # pre.content
       /\ lastOp' = "redo" )
       => (~ret' /\ content' = content)]_vars

\* C6: once more than maxStackSize snapshots were recorded in a row, the undo
\* stack holds exactly the maxStackSize most recent ones in recording order.
C6_MostRecentRetained ==
  Len(recorded) > maxStackSize
    => /\ Len(undoStack) = maxStackSize
       /\ ContentsOf(undoStack) = Tail(recorded)

\* C6 witness: maxStackSize + 1 snapshots were recorded in a row.
C6_Witness == Len(recorded) = maxStackSize + 1 /\ lastOp \in RecordOps

\* C7: a second recordSnapshot() right after a first leaves the undo stack,
\* the redo stack and lastSnapshot unchanged.
C7_SecondRecordNoOp ==
  (lastOp \in RecordOps /\ prevOp \in RecordOps)
    => /\ undoStack = pre.h.undoStack
       /\ redoStack = pre.h.redoStack
       /\ lastSnapshot = pre.h.lastSnapshot

\* C7 witness: two recordings in a row with recording enabled, the first of
\* which left the document's content on top of the undo stack.
C7_Witness ==
  /\ lastOp = "recordSnapshot" /\ prevOp = "recordSnapshot"
  /\ isRecording /\ undoStack # <<>> /\ Top(undoStack).content = content

\* C8: between pause() and resume(), recordSnapshot() (direct or by the
\* timer) leaves the undo stack, the redo stack and lastSnapshot unchanged.
C8_PausedRecordNoOp ==
  (paused /\ lastOp \in RecordOps)
    => /\ undoStack = pre.h.undoStack
       /\ redoStack = pre.h.redoStack
       /\ lastSnapshot = pre.h.lastSnapshot

\* C9: undo() on an empty undo stack and redo() on an empty redo stack return
\* false and change neither the document nor the store.
C9_ExhaustedNoOp ==
  /\ (lastOp = "undo" /\ pre.h.undoStack = <<>>)
       => (~ret /\ content = pre.content /\ StoreUntouched)
  /\ (lastOp = "redo" /\ pre.h.redoStack = <<>>)
       => (~ret /\ content = pre.content /\ StoreUntouched)

\* C9 witness: redo() on an empty redo stack right after undo() on an empty
\* undo stack, the document holding unrecorded content.
C9_Witness ==
  /\ lastOp = "redo" /\ pre.h.redoStack = <<>>
  /\ prevOp = "undo" /\ ~prevRet
  /\ content # lastSnapshot

\* C10: canUndo()/canRedo() are false exactly when the undo/redo stack is
\* empty and change nothing; undo()/redo() return what the check just before
\* them returned.
C10_CanUndoCanRedo ==
  /\ lastOp = "canUndo" => (ret = (undoStack # <<>>) /\ NothingTouched)
  /\ lastOp = "canRedo" => (ret = (redoStack # <<>>) /\ NothingTouched)
  /\ (lastOp = "undo" /\ prevOp = "canUndo") => ret = prevRet
  /\ (lastOp = "redo" /\ prevOp = "canRedo") => ret = prevRet

\* C10 witness: undo() succeeded right after canUndo() said it would, with
\* the redo stack empty before it.
C10_Witness ==
  /\ lastOp = "undo" /\ prevOp = "canUndo" /\ prevRet /\ ret
  /\ pre.h.redoStack = <<>>

\* C11: when a mutation arrives while the timer of the previous one is still
\* pending and the timer then fires, no other callback is left pending and the
\* callback pushes at most one snapshot, of the content after the last mutation.
C11_BurstRecordsOnce ==
  [][(lastOp = "input" /\ pre.timers # {} /\ lastOp' = "timer")
       => /\ timers' = {}
          /\ \/ undoStack' = undoStack
             \/ undoStack' = Append(undoStack, HistorySnapshot(content))
             \/ undoStack' = Tail(Append(undoStack, HistorySnapshot(content)))]_vars

\* C11 witness: two mutations in a row, the second within the quiet period of
\* the first, with one timer pending whose callback will push.
C11_Witness ==
  /\ lastOp = "input" /\ prevOp = "input" /\ pre.timers # {}
  /\ content # pre.content /\ Pushes(HM, content)
  /\ Cardinality(timers) = 1

\* C12: at most one debounce timer is pending per store, and it is the one
\* the store holds the handle of.
C12_SingleTimer ==
  /\ Cardinality(timers) <= 1
  /\ timers # {} => timers = {snapshotTimer}

\* C12 witness: recordSnapshotDebounced() ran while a timer was pending and
\* one timer is pending after it.
C12_Witness ==
  /\ lastOp = "input" /\ pre.timers = {pre.snapshotTimer}
  /\ Cardinality(timers) = 1

\* C13: after Editor.destroy() no debounce timer is pending, no recordSnapshot()
\* callback runs and no stack changes.
C13_NoTimerAfterDestroy ==
  destroyed => /\ timers = {}
               /\ lastOp # "timer"

\* C14: undo() and redo() leave the recording flag as it was before the call,
\* so a store paused with pause() is still paused after them.
C14_FlagRestored ==
  lastOp \in {"undo", "redo"} => isRecording = pre.h.isRecording

\* C15: undo() on a non-empty undo stack returns true, pops the undo stack,
\* pushes a snapshot of the pre-call document on the redo stack and makes the
\* popped content the document and lastSnapshot.
C15_UndoEffects ==
  (lastOp = "undo" /\ pre.h.undoStack # <<>>)
    => /\ ret
       /\ undoStack = Pop(pre.h.undoStack)
       /\ redoStack = Append(pre.h.redoStack, HistorySnapshot(pre.content))
       /\ content = Top(pre.h.undoStack).content
       /\ lastSnapshot = Top(pre.h.undoStack).content

\* C15 witness: undo() succeeded on a document that held unrecorded content
\* and replaced it.
C15_Witness ==
  /\ lastOp = "undo" /\ ret
  /\ pre.content # pre.h.lastSnapshot /\ content # pre.content

\* C16: redo() on a non-empty redo stack returns true, pops the redo stack,
\* pushes a snapshot of the pre-call document on the undo stack and makes the
\* popped content the document and lastSnapshot.
C16_RedoEffects ==
  (lastOp = "redo" /\ pre.h.redoStack # <<>>)
    => /\ ret
       /\ redoStack = Pop(pre.h.redoStack)
       /\ undoStack = Append(pre.h.undoStack, HistorySnapshot(pre.content))
       /\ content = Top(pre.h.redoStack).content
       /\ lastSnapshot = Top(pre.h.redoStack).content

\* C16 witness: redo() succeeded and replaced the document, lastSnapshot
\* having been something else than the popped content.
C16_Witness ==
  /\ lastOp = "redo" /\ ret
  /\ content # pre.content /\ pre.h.lastSnapshot # content

\* C17: clear() empties both stacks and sets lastSnapshot to the document,
\* leaving the document and the recording flag alone; right after it canUndo()
\* and canRedo() are false and recordSnapshot() pushes nothing.
C17_ClearEffects ==
  /\ lastOp = "clear"
       => /\ undoStack = <<>> /\ redoStack = <<>>
          /\ lastSnapshot = content
          /\ content = pre.content
          /\ isRecording = pre.h.isRecording
  /\ (prevOp = "clear" /\ lastOp \in {"canUndo", "canRedo"}) => ~ret
  /\ (prevOp = "clear" /\ lastOp \in RecordOps) => StoreUntouched

\* C17 witness: recordSnapshot() ran right after clear() with recording
\* enabled and pushed nothing.
C17_Witness ==
  /\ prevOp = "clear" /\ lastOp = "recordSnapshot" /\ isRecording
  /\ undoStack = <<>>

\* C18: on an observed mutation the 'change' notification is delivered before
\* the debounce timer is armed or re-armed: at delivery the host timers are
\* still those pending before the mutation.
C18_NotifyBeforeArm ==
  lastOp = "input"
    => \A i \in 1..Len(notified) :
         notified[i].event = "change" => notified[i].pending = pre.timers

\* C19: every input event delivers exactly one 'change' notification carrying
\* the document content of that moment, whatever the timer and the recording
\* flag are; a recorded snapshot delivers none.
C19_OneChangePerInput ==
  /\ lastOp = "input"
       => /\ Len(notified) = 1
          /\ notified[1].event = "change"
          /\ notified[1].data = content
  /\ lastOp \in RecordOps => notified = <<>>

\* C19 witness: an input event was notified while recording was off and a
\* timer was already pending, so that no snapshot will come of it.
C19_Witness ==
  /\ lastOp = "input" /\ ~isRecording /\ pre.timers # {}
  /\ Len(notified) = 1 /\ content # pre.content

\* The last operation was a formatting command that changed the document.
Formatted == lastOp = "execCommand" /\ content # pre.content

\* C20 as stated: a formatting command that changes the document arms the
\* timer and, recording being enabled and the timer firing next, the changed
\* content is on top of the undo stack.
C20_FormatOnUndoStack ==
  [][(Formatted /\ isRecording /\ lastOp' = "timer")
       => (undoStack' # <<>> /\ Top(undoStack').content = content)]_vars

\* C20 amended: such a command arms the timer, the timer fires unless other
\* activity comes first, and when it fires next with recording enabled,
\* lastSnapshot is the changed content, which was pushed on the undo stack
\* unless it equals the content recorded last.
C20_FormatRecorded ==
  /\ [](Formatted => timers = {snapshotTimer})
  /\ [][(Formatted /\ isRecording /\ lastOp' = "timer")
          => /\ lastSnapshot' = content
             /\ content # lastSnapshot
                  => (undoStack' # <<>> /\ Top(undoStack').content = content)
             /\ content = lastSnapshot => undoStack' = undoStack]_vars
  /\ Formatted ~> (lastOp # "execCommand")

\* C20 witness: the timer fired right after a formatting command and pushed
\* the document's content.
C20_Witness ==
  /\ lastOp = "timer" /\ prevOp = "execCommand" /\ prevRet
  /\ undoStack # pre.h.undoStack /\ Top(undoStack).content = content

\* The last operation delivered 'formatChange'.
FormatChangeEmitted == \E i \in 1..Len(notified) : notified[i].event = "formatChange"

\* C21: executeCommand() emits 'formatChange' exactly when the host's
\* execCommand reported success; on failure or an unsupported command no
\* 'formatChange' is emitted.
C21_FormatChangeOnSuccess ==
  lastOp = "execCommand" => (FormatChangeEmitted <=> ret)

\* C22: executeCommand() with a command the host cannot perform raises nothing
\* to its caller, an observer that throws included, and leaves the document,
\* both stacks and lastSnapshot as they were.
C22_FailedCommandNoOp ==
  (lastOp = "execCommand" /\ ~ret) =>
    /\ ~raised
    /\ content = pre.content
    /\ undoStack = pre.h.undoStack
    /\ redoStack = pre.h.redoStack
    /\ lastSnapshot = pre.h.lastSnapshot

\* C22 witness: the host failed on a store with history and a pending timer,
\* and the observer of 'formatChange' was called.
C22_Witness ==
  /\ lastOp = "execCommand" /\ ~ret
  /\ FormatChangeEmitted
  /\ undoStack # <<>> /\ redoStack # <<>>
  /\ timers # {}


----------------------------------------------------------------------------
\* Properties of the selection tracker and of the format query.

\* C23: isFormatActive(command) changes neither the document, the selection,
\* the history stacks nor the timer, and with no selection it returns false
\* without throwing.
C23_QueryIsPure ==
  [][lastOp' = "isFormatActive" =>
       /\ UNCHANGED <<content, nodes, selection, undoStack, redoStack,
                      lastSnapshot, snapshotTimer, timers>>
       /\ ~out'.raised
       /\ selection.kind = "none" => ~out'.flag]_vars

\* C23 witness: the query ran with no selection on an editor that holds a
\* snapshot and a pending timer.
C23_Witness ==
  /\ lastOp = "isFormatActive"
  /\ selection.kind = "none"
  /\ undoStack # <<>>
  /\ timers # {}

\* C24: getRange() and saveSelection() return null exactly when there is no
\* active range or the active range lies outside the editor element, and the
\* current range otherwise; neither throws.
C24_NullOutsideEditor ==
  lastOp \in {"getRange", "saveSelection"} =>
    /\ ~out.raised
    /\ out.range = Null <=> selection.kind \in {"none", "outside"}
    /\ out.range # Null => out.range = selection

\* The cursor stands at the end of the document's text.
AtEnd == isSelectionInEditor(selection)
           /\ getSelectionOffset(nodes, selection) = TextLength(nodes)
\* The cursor stands at the start of the document's text.
AtStart == isSelectionInEditor(selection)
             /\ getSelectionOffset(nodes, selection) = 0

\* C25: setCursorAtOffset(offset) with an offset past the total text length
\* puts the cursor at the end of the document, with an offset below zero at
\* its start, and throws in neither case.
C25_OutOfRangeClamps ==
  lastOp = "setCursorAtOffset" =>
    /\ arg > TextLength(nodes) => (~out.raised /\ AtEnd)
    /\ arg < 0 => (~out.raised /\ AtStart)

\* C26 as stated: setCursorAtOffset(k) followed by getSelectionOffset() gives
\* k for 0 <= k <= total text length, and the two mappings are mutually
\* inverse: setting the cursor at the offset of a position in a text node
\* gives that position back.
C26_MutuallyInverse ==
  /\ (lastOp = "setCursorAtOffset" /\ arg \in 0..TextLength(nodes))
       => getSelectionOffset(nodes, selection) = arg
  /\ selection.kind = "text"
       => setCursorAtOffset(nodes, selection,
                            getSelectionOffset(nodes, selection)).selection = selection

\* C26 amended: for every document, empty text nodes included, and every k
\* with 0 <= k <= total text length, setCursorAtOffset(k) does not throw and
\* getSelectionOffset() then gives k.  The converse is not claimed: several
\* positions share one offset.
C26_OffsetRoundTrip ==
  (lastOp = "setCursorAtOffset" /\ arg \in 0..TextLength(nodes)) =>
    /\ ~out.raised
    /\ getSelectionOffset(nodes, selection) = arg

\* C26 witness: the cursor was set at the end of a document that starts with
\* an empty text node.
C26_Witness ==
  /\ lastOp = "setCursorAtOffset"
  /\ Len(nodes) = 2 /\ nodes[1] = 0
  /\ arg = TextLength(nodes) /\ arg > 0
  /\ selection = Position("text", 2, arg)

----------------------------------------------------------------------------
\* Properties of the event emitter.

\* The calls emit() itself made, those of nested emits left out.
TopCalls(cs) == SelectSeq(cs, LAMBDA c : c.depth = 0)
\* How many times the registered function f was called.
TimesCalled(cs, f) == Cardinality({j \in 1..Len(cs) : cs[j].fn = f})
\* The registrations of handlers other than h.
Others(fs, h) == SelectSeq(fs, LAMBDA g : g.h # h)

\* C27: a handler registered with once() is called exactly once however often
\* the event is emitted: the emit() that reaches its registration calls it
\* one time and leaves it unregistered, also when the handler throws and when
\* it emits the event again while running.
C27_OnceExactlyOnce ==
  [][lastOp' = "emit" =>
       \A i \in 1..Len(events[request'.event]) :
         LET f == events[request'.event][i]
         IN f.wrapper # 0 =>
              /\ TimesCalled(calls', f) = 1
              /\ \A k \in 1..Len(events'[request'.event]) :
                   events'[request'.event][k] # f]_vars

\* C28: after off(event, handler) the next emit(event) does not call handler,
\* whether it was registered with on() or once(); off() leaves the handlers of
\* other events and the other handlers of the event registered.
C28_OffSilences ==
  [][/\ (lastOp = "off" /\ lastOp' = "emit" /\ request'.event = request.event)
          => \A j \in 1..Len(calls') : calls'[j].fn.h # request.handler
     /\ lastOp' = "off"
          => /\ \A e \in Events \ {request'.event} : events'[e] = events[e]
             /\ Others(events'[request'.event], request'.handler)
                  = Others(events[request'.event], request'.handler)]_vars

\* C29: emit(event, data) calls every function registered for the event, once
\* per registration, in registration order and with data; an exception of a
\* handler does not leave emit() and does not stop the calls that follow.
C29_EmitCallsAll ==
  [][lastOp' = "emit" =>
       LET fs == events[request'.event]
           top == TopCalls(calls')
       IN /\ emitThrown' # "raised"
          /\ Len(top) = Len(fs)
          /\ \A i \in 1..Len(fs) :
               /\ top[i].fn = fs[i]
               /\ top[i].event = request'.event
               /\ top[i].data = request'.data]_vars

\* C29 witness: two handlers were registered, the first threw and the second
\* was called all the same, with the data emitted.
C29_Witness ==
  /\ lastOp = "emit"
  /\ emitThrown = "contained"
  /\ Len(calls) = 2
  /\ calls[1].threw /\ calls[1].fn.h # calls[2].fn.h
  /\ calls[2].data = "x"

\* A handler is registered for 'mounted'.
MountedListening == events["mounted"] # <<>>
\* A handler of 'mounted' was called.
MountedHeard == \E j \in 1..Len(calls) : calls[j].event = "mounted"

\* C30: a handler registered with editor.on('mounted', h) on the editor the
\* constructor returned is eventually called.
C30_MountedDelivered == MountedListening ~> MountedHeard

----------------------------------------------------------------------------
\* Properties of the change coordinator: what the timer, undo()/redo() and
\* setContent() leave in the store.

\* C31: after a content mutation the pending timer fires; recordSnapshot()
\* then runs once and no timer is pending; with recording enabled at that
\* moment lastSnapshot is the document content afterwards.
C31_TimerSettles ==
  /\ [][lastOp' = "timer" =>
          /\ timers' = {}
          /\ <<undoStack', redoStack', isRecording', lastSnapshot'>>
               = LET r == recordSnapshot(HM, content)
                 IN <<r.undoStack, r.redoStack, r.isRecording, r.lastSnapshot>>
          /\ isRecording => lastSnapshot' = content']_vars
  /\ (lastOp = "input") ~> (lastOp = "timer" /\ timers = {})

\* C31 witness: the timer armed by an input fired, recorded the document and
\* left no timer pending.
C31_Witness ==
  /\ lastOp = "timer" /\ prevOp = "input"
  /\ timers = {}
  /\ undoStack # pre.h.undoStack
  /\ lastSnapshot = content

\* C32: a debounce timer that was pending when undo() or redo() applied a
\* snapshot and fires right after it changes neither stack.
C32_ReplayNotCaptured ==
  (lastOp = "timer" /\ prevOp \in {"undo", "redo"} /\ prevRet) =>
    /\ undoStack = pre.h.undoStack
    /\ redoStack = pre.h.redoStack

\* C32 witness: the timer fired right after an undo() that changed the
\* document while recording was on, and the redo stack is still there.
C32_Witness ==
  /\ lastOp = "timer" /\ prevOp = "undo" /\ prevRet
  /\ isRecording
  /\ redoStack # <<>>
  /\ content # Top(redoStack).content

\* C33: an editor constructed with non-empty content and not yet edited has
\* lastSnapshot equal to the document content, so that a first
\* recordSnapshot() or timer callback pushes nothing.
C33_InitialSnapshot ==
  /\ lastOp = "new" => lastSnapshot = content
  /\ (lastOp = "recordSnapshot" /\ prevOp = "new") => undoStack = <<>>

\* C34: the undo stack and the redo stack together hold at most maxStackSize
\* snapshots, and undo() and redo() keep their sum.
C34_StacksBounded ==
  /\ Len(undoStack) + Len(redoStack) <= maxStackSize
  /\ lastOp \in {"undo", "redo"}
       => Len(undoStack) + Len(redoStack)
            = Len(pre.h.undoStack) + Len(pre.h.redoStack)

\* C34 witness: undo() has moved the whole history onto the redo stack.
C34_Witness ==
  /\ lastOp = "undo" /\ ret
  /\ Len(redoStack) = maxStackSize

\* C35: no two adjacent snapshots of the undo stack have equal content.
C35_NoAdjacentEqual ==
  \A i \in 1..(Len(undoStack) - 1) : undoStack[i].content # undoStack[i + 1].content

\* The last operation was a recordSnapshot() that pushed, an undo() or redo()
\* that returned true, or a clear().
Synced ==
  \/ lastOp \in RecordOps /\ Pushes(pre.h, pre.content)
  \/ lastOp \in {"undo", "redo"} /\ ret
  \/ lastOp = "clear"

\* C36: right after a recordSnapshot() that pushed, an undo() or redo() that
\* returned true, or a clear(), lastSnapshot is the document content, and a
\* timer firing next leaves the store as it is.
C36_LastSnapshotSynced ==
  /\ [](Synced => lastSnapshot = content)
  /\ [][(Synced /\ lastOp' = "timer") => UNCHANGED store]_vars

\* C36 witness: the timer fired right after a clear() of an edited document
\* whose earlier timer was still pending.
C36_Witness ==
  /\ lastOp = "timer" /\ prevOp = "clear"
  /\ content # ""
  /\ undoStack = <<>>

\* C37: undo() followed at once by redo(), both returning true, leaves the
\* document and both stacks as they were before the undo().
C37_UndoRedoRestoresStacks ==
  [][(lastOp = "undo" /\ ret /\ lastOp' = "redo" /\ ret')
       => /\ content' = pre.content
          /\ undoStack' = pre.h.undoStack
          /\ redoStack' = pre.h.redoStack]_vars

\* C37 witness: redo() right after undo(), the undo stack holding a snapshot
\* again and the redo stack one still.
C37_Witness ==
  /\ lastOp = "redo" /\ ret /\ prevOp = "undo" /\ prevRet
  /\ Len(undoStack) >= 1
  /\ redoStack # <<>>

\* C38: setContent(html) changes the document only: both stacks, lastSnapshot
\* and the timer stay as they are and no 'change' is delivered.
C38_SetContentFrame ==
  lastOp = "setContent" =>
    /\ HM = pre.h
    /\ snapshotTimer = pre.snapshotTimer
    /\ timers = pre.timers
    /\ notified = <<>>

\* C38 witness: setContent() replaced the document of an editor with history
\* and no timer pending.
C38_Witness ==
  /\ lastOp = "setContent"
  /\ content # pre.content
  /\ undoStack # <<>>
  /\ timers = {}

----------------------------------------------------------------------------
\* Properties of the toolbar and of the plugins.

\* C39: activating a button of the minimal, standard or full preset that does
\* not prompt makes exactly one call on the editor or on its format manager:
\* the routing drops no preset command.
C39_PresetCommandRouted ==
  (lastOp = "click" /\ ~clicked.config.prompt) => Len(routed) = 1

\* The names registered in ps are pairwise distinct.
OnePerName(ps) ==
  \A i, j \in 1..Len(ps) : nameOf[ps[i]] = nameOf[ps[j]] => i = j

\* The plugins of ps, each with its onDestroy() callback, in order.
Destroys(ps) == [i \in 1..Len(ps) |-> Did("onDestroy", ps[i])]

\* C40: whatever the sequence of registerPlugin, unregisterPlugin and destroy
\* calls, one plugin at most is registered per name, registering a taken name
\* changes nothing and initialises nothing, a plugin gets onDestroy() once,
\* when it is unregistered or when the editor is destroyed and not both, and
\* on destroy every onDestroy() comes before the 'destroyed' event.
C40_PluginLifecycle ==
  /\ OnePerName(plugins)
  /\ (lastOp = "registerPlugin" /\ has(prePlugins, nameOf[asked]))
       => plugins = prePlugins /\ lifecycle = <<>>
  /\ \A p \in Plugins :
       /\ onDestroyCalls[p] <= 1
       /\ (\E i \in 1..Len(plugins) : plugins[i] = p) => onDestroyCalls[p] = 0
  /\ (lastOp = "unregisterPlugin" /\ has(prePlugins, asked))
       => /\ ~has(plugins, asked)
          /\ lifecycle = <<Did("onDestroy", get(prePlugins, asked))>>
  /\ lastOp = "destroy"
       => /\ plugins = <<>>
          /\ lifecycle = Append(Destroys(prePlugins), Did("emit", "destroyed"))

====
